---------------------------- MODULE Spec2Model ----------------------------
(***************************************************************************)
(* VL01 -> Suntech translation core.                                       *)
(*                                                                         *)
(* Model of app/src/protocols/vl01/mapper.py (decoder and the four packet  *)
(* handlers) and app/src/suntech/utils.py (the Suntech packet builders).   *)
(*                                                                         *)
(* Representation                                                          *)
(*   bytes        sequence of integers 0..255                              *)
(*   dict         function whose DOMAIN is the set of keys present         *)
(*   None / value <<>> / <<v>>                                             *)
(*   datetime     [year, month, day, hour, minute, second]                 *)
(*   float lat/lon  [neg, raw]: the value (-1)^neg * raw / 1800000, so     *)
(*                that -0.0 and +0.0 are distinct as they are in Python    *)
(*   str          a TLA+ string; a device id is a sequence of 1-character  *)
(*                strings so that str.isdigit can be applied per character *)
(*   packet       the list of fields handed to ";".join, and its text      *)
(***************************************************************************)
EXTENDS Integers, Sequences, FiniteSets, TLC

VARIABLES
    store,      \* device id string -> hash of the device (the redis store)
    last,       \* the frame processed last and what its handler did
    lastGood,   \* history: device id string -> body of the latest location
                \* frame of the device that decoded, None when there was none
    lastHb,     \* history: device id string -> body of the latest heartbeat
                \* frame of the device, None when there was none
    nframes     \* number of frames processed

vars == <<store, last, lastGood, lastHb, nframes>>

None == <<>>
Some(v) == <<v>>

Has(d, k) == k \in DOMAIN d
Get(d, k, dflt) == IF k \in DOMAIN d THEN d[k] ELSE dflt

(* body[a:b] for 0 <= a, any b (a negative b counts from the end) *)
Slice(body, a, b) ==
    LET e0 == IF b < 0 THEN Len(body) + b ELSE b
        e  == IF e0 > Len(body) THEN Len(body) ELSE e0
    IN  IF e <= a THEN <<>> ELSE SubSeq(body, a + 1, e)

(* struct.unpack(">H", b)[0] and struct.unpack(">I", b)[0], b of the right length. *)
(* The frames enumerated below keep the first byte of a 32-bit field under 128,  *)
(* so that the value stays within the integers TLC computes with.                *)
UnpackH(b) == b[1] * 256 + b[2]
UnpackI(b) == ((b[1] * 256 + b[2]) * 256 + b[3]) * 256 + b[4]

-----------------------------------------------------------------------------
(* str() and format() of the values the builders print *)

DigitChar == <<"0", "1", "2", "3", "4", "5", "6", "7", "8", "9">>

RECURSIVE Str(_)
Str(n) == IF n < 10 THEN DigitChar[n + 1]
          ELSE Str(n \div 10) \o DigitChar[(n % 10) + 1]

RECURSIVE Pad(_, _)
(* f"{n:0wd}" for n >= 0 *)
Pad(n, w) == IF w <= 1 THEN Str(n)
             ELSE IF Len(Str(n)) >= w THEN Str(n)
             ELSE "0" \o Pad(n, w - 1)

RECURSIVE Join(_, _)
(* sep.join(fields) *)
Join(fields, sep) ==
    IF Len(fields) = 0 THEN ""
    ELSE IF Len(fields) = 1 THEN fields[1]
    ELSE fields[1] \o sep \o Join(Tail(fields), sep)

(* f"{n:.2f}" of an int *)
Fmt2f(n) == Str(n) \o ".00"

(* A coordinate raw/1800000 printed with 6 decimals.  The quotient is not a  *)
(* tie of the sixth decimal for any integer raw (raw*10/9 is never an odd    *)
(* integer), so rounding to nearest is floor(x * 10^6 + 1/2).                *)
Micro(raw) == ((raw % 1800000) * 10 + 9) \div 18
Fmt6f(v) ==
    LET m   == Micro(v.raw)
        deg == (v.raw \div 1800000) + (IF m = 1000000 THEN 1 ELSE 0)
        frc == IF m = 1000000 THEN 0 ELSE m
    IN  (IF v.neg THEN "-" ELSE "") \o Str(deg) \o "." \o Pad(frc, 6)

(* v >= 0 for a float: true of +0.0 and of -0.0 *)
GeZero(v) == (~v.neg) \/ v.raw = 0

(* -abs(x) and abs(x) of the non-negative float raw/1800000 *)
NegAbs(raw) == [neg |-> TRUE, raw |-> raw]
Abs(raw) == [neg |-> FALSE, raw |-> raw]

-----------------------------------------------------------------------------
(* datetime *)

IsLeap(y) == (y % 4 = 0 /\ y % 100 # 0) \/ y % 400 = 0

DaysInMonth(y, m) ==
    IF m = 2 THEN (IF IsLeap(y) THEN 29 ELSE 28)
    ELSE IF m \in {4, 6, 9, 11} THEN 30 ELSE 31

(* variant: the day is checked against 31 for every month *)
ValidDateTime_anyday(y, m, d, H, M, S) ==
    /\ y \in 1..9999
    /\ m \in 1..12
    /\ d \in 1..31
    /\ H \in 0..23
    /\ M \in 0..59
    /\ S \in 0..59

(* datetime(y, m, d, H, M, S) raises ValueError unless this holds *)
ValidDateTime(y, m, d, H, M, S) ==
    /\ y \in 1..9999
    /\ m \in 1..12
    /\ d \in 1..DaysInMonth(y, m)
    /\ H \in 0..23
    /\ M \in 0..59
    /\ S \in 0..59

DateTime(y, m, d, H, M, S) ==
    [year |-> y, month |-> m, day |-> d, hour |-> H, minute |-> M, second |-> S]

(* strftime of the formats the code uses *)
StrfHMS(t) == Pad(t.hour, 2) \o ":" \o Pad(t.minute, 2) \o ":" \o Pad(t.second, 2)
StrfIso(t) == Pad(t.year, 4) \o "-" \o Pad(t.month, 2) \o "-" \o Pad(t.day, 2)
              \o "T" \o StrfHMS(t)
StrfYmd(t) == Pad(t.year, 4) \o Pad(t.month, 2) \o Pad(t.day, 2)

RECURSIVE DaysBeforeMonth(_, _)
DaysBeforeMonth(y, m) ==
    IF m <= 1 THEN 0 ELSE DaysBeforeMonth(y, m - 1) + DaysInMonth(y, m - 1)

(* minutes since 2000-01-01T00:00, for 2000 <= year *)
LeapsBefore(y) == ((y - 1) \div 4) - ((y - 1) \div 100) + ((y - 1) \div 400)
DaysSince2000(t) ==
    (t.year - 2000) * 365 + (LeapsBefore(t.year) - LeapsBefore(2000))
    + DaysBeforeMonth(t.year, t.month) + (t.day - 1)
Minutes(t) == (DaysSince2000(t) * 24 + t.hour) * 60 + t.minute

(* a > now - timedelta(minutes=2), both at whole seconds *)
After2MinAgo(a, now) ==
    \/ Minutes(a) > Minutes(now) - 2
    \/ Minutes(a) = Minutes(now) - 2 /\ a.second > now.second

-----------------------------------------------------------------------------
(* mapper.py *)

AlertCodes == {1, 2, 3, 4, 5, 6, 25, 240, 241, 19, 20, 254, 255}

VL01_TO_SUNTECH_ALERT_MAP ==
    [c \in AlertCodes |->
        CASE c = 1   -> 42
          [] c = 2   -> 41
          [] c = 3   -> 15
          [] c = 4   -> 6
          [] c = 5   -> 5
          [] c = 6   -> 1
          [] c = 25  -> 14
          [] c = 240 -> 46
          [] c = 241 -> 47
          [] c = 19  -> 147
          [] c = 20  -> 73
          [] c = 254 -> 33
          [] c = 255 -> 34]

(* variant: the hemispheres are read from bits 11 and 12, as the comment at *)
(* line 51 of mapper.py words it                                            *)
DecodeFixed_bits1112(body) ==
    IF Len(body) < 18 THEN None
    ELSE IF ~ValidDateTime(2000 + body[1], body[2], body[3], body[4], body[5], body[6])
    THEN None
    ELSE
      LET lat_raw == UnpackI(Slice(body, 7, 11))
          lon_raw == UnpackI(Slice(body, 11, 15))
          course_status == UnpackH(Slice(body, 16, 18))
          is_latitude_north == (course_status \div 2048) % 2
          is_longitude_west == (course_status \div 4096) % 2
      IN Some([timestamp  |-> DateTime(2000 + body[1], body[2], body[3],
                                       body[4], body[5], body[6]),
               satellites |-> body[7] % 16,
               speed_kmh  |-> body[16],
               latitude   |-> IF is_latitude_north = 0 THEN NegAbs(lat_raw)
                              ELSE Abs(lat_raw),
               longitude  |-> IF is_longitude_west = 1 THEN NegAbs(lon_raw)
                              ELSE Abs(lon_raw),
               direction  |-> course_status % 1024])

(* the fixed-layout part of decode_location_packet: lines 37-60.  Every     *)
(* exception raised there reaches the outer except, which returns None.     *)
DecodeFixed(body) ==
    IF Len(Slice(body, 0, 6)) # 6 THEN None
    ELSE IF ~ValidDateTime(2000 + body[1], body[2], body[3], body[4], body[5], body[6])
    THEN None
    ELSE IF Len(body) < 7 THEN None
    ELSE IF Len(Slice(body, 7, 15)) # 8 THEN None
    ELSE IF Len(body) < 16 THEN None
    ELSE IF Len(Slice(body, 16, 18)) # 2 THEN None
    ELSE
      LET lat_raw == UnpackI(Slice(body, 7, 11))
          lon_raw == UnpackI(Slice(body, 11, 15))
          course_status == UnpackH(Slice(body, 16, 18))
          is_latitude_north == (course_status \div 1024) % 2
          is_longitude_west == (course_status \div 2048) % 2
      IN Some([timestamp  |-> DateTime(2000 + body[1], body[2], body[3],
                                       body[4], body[5], body[6]),
               satellites |-> body[7] % 16,
               speed_kmh  |-> body[16],
               latitude   |-> IF is_latitude_north = 0 THEN NegAbs(lat_raw)
                              ELSE Abs(lat_raw),
               longitude  |-> IF is_longitude_west = 1 THEN NegAbs(lon_raw)
                              ELSE Abs(lon_raw),
               direction  |-> course_status % 1024])

(* variant: the trailing fields are set together or not at all *)
DecodeTrailing_together(body) ==
    IF Len(Slice(body, 18, 20)) # 2 THEN <<>>
    ELSE
      LET course_status == UnpackH(Slice(body, 16, 18))
          mcc == UnpackH(Slice(body, 18, 20))
          acc_at == 20 + (IF (mcc \div 32768) % 2 = 1 THEN 2 ELSE 1) + 4 + 8
      IN IF Len(body) < acc_at + 7 THEN <<>>
         ELSE [status_bits |-> (IF (course_status \div 4096) % 2 = 1 THEN 2 ELSE 0)
                               + (IF body[acc_at + 1] = 1 THEN 1 ELSE 0),
               is_realtime |-> (body[acc_at + 3] = 0),
               gps_odometer |-> UnpackI(Slice(body, acc_at + 3, acc_at + 7))]

(* the inner try of decode_location_packet: lines 62-86.  The keys are set  *)
(* one after the other, and the bare except keeps the ones already set.     *)
DecodeTrailing(body) ==
    IF Len(Slice(body, 18, 20)) # 2 THEN <<>>
    ELSE
      LET course_status == UnpackH(Slice(body, 16, 18))
          gps_fixed == (course_status \div 4096) % 2
          mcc == UnpackH(Slice(body, 18, 20))
          mnc_length == IF (mcc \div 32768) % 2 = 1 THEN 2 ELSE 1
          acc_at == 20 + mnc_length + 4 + 8
          mileage_at == acc_at + 3
      IN IF Len(body) <= acc_at THEN <<>>
         ELSE
           LET sb == (IF gps_fixed = 1 THEN 2 ELSE 0)
                     + (IF body[acc_at + 1] = 1 THEN 1 ELSE 0)
               d1 == [status_bits |-> sb]
           IN IF Len(body) <= acc_at + 2 THEN d1
              ELSE
                LET d2 == d1 @@ [is_realtime |-> (body[acc_at + 3] = 0)]
                IN IF Len(Slice(body, mileage_at, mileage_at + 4)) # 4 THEN d2
                   ELSE d2 @@ [gps_odometer |->
                                 UnpackI(Slice(body, mileage_at, mileage_at + 4))]

decode_location_packet(body) ==
    LET fx == DecodeFixed(body)
    IN IF fx = None THEN None
       ELSE Some(fx[1] @@ DecodeTrailing(body))

-----------------------------------------------------------------------------
(* The device-state store (redis hashes) and the JSON text kept in it.      *)
(* A hash field that was never set reads as None; a value that was set      *)
(* reads back as the string that was stored.                                 *)

EmptyHash == [last_location_data |-> None, last_output_status |-> None]

hget(st, key, field) == st[key][field]
hset(st, key, field, value) == [st EXCEPT ![key][field] = Some(value)]

(* json.dumps of a dict of str, int, float and bool values, and json.loads  *)
(* of such a text: the text is represented by the dict it denotes.          *)
json_dumps(d) == [json |-> d]
json_loads(s) == s.json

(* truth value of what hget returned *)
Truthy(v) == v # None /\ v[1] # ""

(* {**a, **b} *)
Merge(a, b) == [k \in DOMAIN a \cup DOMAIN b |-> IF k \in DOMAIN b THEN b[k] ELSE a[k]]

-----------------------------------------------------------------------------
(* suntech/utils.py *)

Digits == {"0", "1", "2", "3", "4", "5", "6", "7", "8", "9"}

IsDigit(c) == c \in Digits

(* ''.join(filter(str.isdigit, dev_id))[-10:] *)
NormalizeId(dev_id) ==
    LET ds == SelectSeq(dev_id, IsDigit)
    IN  Join(IF Len(ds) > 10 THEN SubSeq(ds, Len(ds) - 9, Len(ds)) ELSE ds, "")

(* f"0000000{hget(..) if hget(..) else '0'}" *)
OutputField(st, dev_id) ==
    LET v == hget(st, dev_id, "last_output_status")
    IN  "0000000" \o (IF Truthy(v) THEN v[1] ELSE "0")

(* "0" if hget(..) else "1" *)
ModeField(st, dev_id) ==
    IF Truthy(hget(st, dev_id, "last_output_status")) THEN "0" ELSE "1"

RealtimeField(is_realtime) == IF is_realtime THEN "1" ELSE "0"

SignedCoord(v) == IF GeZero(v) THEN "+" \o Fmt6f(v) ELSE Fmt6f(v)

FixField(location_data) ==
    IF (Get(location_data, "status_bits", 0) \div 2) % 2 = 1 THEN "1" ELSE "0"

IgnitionField(location_data) ==
    "0000000" \o Str(Get(location_data, "status_bits", 0) % 2)

(* build_suntech_packet, geo_fence_id = None; alert_id = 0 stands for None *)
build_suntech_packet(hdr, dev_id, location_data, serial, is_realtime, alert_id, st) ==
    LET base_fields ==
          << hdr,
             NormalizeId(dev_id),
             "FFF83F",
             "218",
             "1.0.12",
             RealtimeField(is_realtime),
             StrfYmd(location_data["timestamp"]),
             StrfHMS(location_data["timestamp"]),
             SignedCoord(location_data["latitude"]),
             SignedCoord(location_data["longitude"]),
             Fmt2f(location_data["speed_kmh"]),
             Fmt2f(location_data["direction"]),
             Str(Get(location_data, "satellites", 15)),
             FixField(location_data),
             IgnitionField(location_data),
             OutputField(st, dev_id) >>
        telemetry_fields ==
          << "00028003",
             "12.43",
             "0.0",
             Str(Get(location_data, "gps_odometer", 0)),
             "1" >>
        trailer ==
          IF hdr = "STT"
          THEN << ModeField(st, dev_id), "1", Pad(serial % 10000, 4), "" >>
               \o telemetry_fields
          ELSE IF hdr = "ALT"
          THEN << Str(alert_id), "", "", "" >> \o telemetry_fields
          ELSE <<>>
        fields == base_fields \o trailer
    IN  [fields |-> fields, text |-> Join(fields, ";")]

(* the hget calls build_suntech_packet makes, in order *)
PacketReads(hdr, dev_id, st) ==
    (IF Truthy(hget(st, dev_id, "last_output_status"))
     THEN <<"hget:last_output_status", "hget:last_output_status">>
     ELSE <<"hget:last_output_status">>)
    \o (IF hdr = "STT" THEN <<"hget:last_output_status">> ELSE <<>>)

build_suntech_alv_packet(dev_id) ==
    LET fields == << "ALV", NormalizeId(dev_id) >>
    IN  [fields |-> fields, text |-> "ALV;" \o NormalizeId(dev_id)]

(* build_suntech_res_packet; command_parts[2] and [3] are passed directly *)
build_suntech_res_packet(dev_id, cmd_group, cmd_action, location_data, st) ==
    LET ts == location_data["timestamp"]
        packet_fields ==
          << "RES",
             NormalizeId(dev_id),
             cmd_group,
             cmd_action,
             Pad(ts.year, 4),
             Pad(ts.month, 2),
             Pad(ts.day, 2),
             StrfHMS(ts),
             "0",
             IF Has(location_data, "latitude")
               THEN Fmt6f(location_data["latitude"]) ELSE "0.000000",
             IF Has(location_data, "longitude")
               THEN Fmt6f(location_data["longitude"]) ELSE "0.000000",
             IF Has(location_data, "speed_kmh")
               THEN Fmt2f(location_data["speed_kmh"]) ELSE "0.00",
             IF Has(location_data, "direction")
               THEN Fmt2f(location_data["direction"]) ELSE "0.00",
             Str(Get(location_data, "satellites", 0)),
             FixField(location_data),
             Str(Get(location_data, "gps_odometer", 0)),
             "0.0",
             IgnitionField(location_data),
             OutputField(st, dev_id),
             ModeField(st, dev_id),
             "0" >>
    IN  [fields |-> packet_fields, text |-> Join(packet_fields, ";")]

ResReads(dev_id, st) ==
    <<"hget:last_output_status">>
    \o (IF Truthy(hget(st, dev_id, "last_output_status"))
        THEN <<"hget:last_output_status", "hget:last_output_status">>
        ELSE <<"hget:last_output_status">>)

-----------------------------------------------------------------------------
(* The packet handlers.  Each returns what one call did: the exception that *)
(* escaped it ("none" when it returned), the store and sender calls it made *)
(* in order, the packets it handed to send_to_main_server, the log lines it *)
(* wrote, and the store it left.                                             *)

Result(raised, ops, sent, logs, st) ==
    [raised |-> raised, ops |-> ops, sent |-> sent, logs |-> logs, store |-> st]

(* the record handle_location_packet caches: the timestamp as a string *)
Serialized(location_data) ==
    [location_data EXCEPT !["timestamp"] = StrfIso(location_data["timestamp"])]

(* variant: the STT packet is always built as realtime *)
handle_location_packet_rt(dev_id_str, serial, body, st) ==
    LET location_data == decode_location_packet(body)
    IN  IF location_data = None
        THEN Result("none", <<>>, <<>>, <<"decode_failed">>, st)
        ELSE
          LET st1 == hset(st, dev_id_str, "last_location_data",
                          json_dumps(Serialized(location_data[1])))
              suntech_packet ==
                build_suntech_packet("STT", dev_id_str, location_data[1], serial,
                                     TRUE, 0, st1)
          IN  Result("none",
                     <<"hset:last_location_data">>
                       \o PacketReads("STT", dev_id_str, st1) \o <<"send">>,
                     <<suntech_packet>>,
                     <<"stt">>,
                     st1)

(* variant: the record is cached only when the device has none yet *)
handle_location_packet_setnx(dev_id_str, serial, body, st) ==
    LET location_data == decode_location_packet(body)
    IN  IF location_data = None
        THEN Result("none", <<>>, <<>>, <<"decode_failed">>, st)
        ELSE
          LET st1 == IF hget(st, dev_id_str, "last_location_data") = None
                     THEN hset(st, dev_id_str, "last_location_data",
                               json_dumps(Serialized(location_data[1])))
                     ELSE st
              suntech_packet ==
                build_suntech_packet("STT", dev_id_str, location_data[1], serial,
                                     Get(location_data[1], "is_realtime", TRUE), 0, st1)
          IN  Result("none",
                     <<"hset:last_location_data">>
                       \o PacketReads("STT", dev_id_str, st1) \o <<"send">>,
                     <<suntech_packet>>,
                     <<"stt">>,
                     st1)

handle_location_packet(dev_id_str, serial, body, st) ==
    LET location_data == decode_location_packet(body)
    IN  IF location_data = None
        THEN Result("none", <<>>, <<>>, <<"decode_failed">>, st)
        ELSE
          LET st1 == hset(st, dev_id_str, "last_location_data",
                          json_dumps(Serialized(location_data[1])))
              suntech_packet ==
                build_suntech_packet("STT", dev_id_str, location_data[1], serial,
                                     Get(location_data[1], "is_realtime", TRUE), 0, st1)
          IN  Result("none",
                     <<"hset:last_location_data">>
                       \o PacketReads("STT", dev_id_str, st1) \o <<"send">>,
                     <<suntech_packet>>,
                     <<"stt">>,
                     st1)

(* variant: the length test is off by one *)
ALARM_MIN_LEN_short == 21 - 1

ALARM_MIN_LEN == 21
ALARM_SLICE_END == 16

(* variant: the whole 18-byte fixed layout is decoded and the ALT packet is *)
(* sent without testing that the alarm code is mapped (alert id 0 if not)   *)
handle_alarm_packet_nomap(dev_id_str, serial, body, now, st) ==
    IF Len(body) < ALARM_MIN_LEN
    THEN Result("none", <<>>, <<>>, <<"short">>, st)
    ELSE
      LET alarm_location_data == decode_location_packet(Slice(body, 0, 18))
          last_location_data_str == hget(st, dev_id_str, "last_location_data")
          alarm_code == body[18]
      IN  IF alarm_location_data = None
          THEN Result("AttributeError", <<>>, <<>>, <<"decode_failed">>, st)
          ELSE IF last_location_data_str = None
          THEN Result("TypeError", <<"hget:last_location_data">>, <<>>, <<>>, st)
          ELSE Result("none",
                      <<"hget:last_location_data">>
                        \o PacketReads("ALT", dev_id_str, st) \o <<"send">>,
                      << build_suntech_packet("ALT", dev_id_str,
                           Merge(json_loads(last_location_data_str[1]),
                                 alarm_location_data[1]),
                           serial, TRUE,
                           IF alarm_code \in DOMAIN VL01_TO_SUNTECH_ALERT_MAP
                           THEN VL01_TO_SUNTECH_ALERT_MAP[alarm_code] ELSE 0, st) >>,
                      <<"alt">>,
                      st)

(* variant: the whole 18-byte fixed layout is decoded and a frame older     *)
(* than two minutes is dropped after the log line                           *)
handle_alarm_packet_dropstale(dev_id_str, serial, body, now, st) ==
    IF Len(body) < ALARM_MIN_LEN
    THEN Result("none", <<>>, <<>>, <<"short">>, st)
    ELSE
      LET alarm_location_data == decode_location_packet(Slice(body, 0, 18))
          last_location_data_str == hget(st, dev_id_str, "last_location_data")
          alarm_code == body[18]
      IN  IF alarm_location_data = None
          THEN Result("AttributeError", <<>>, <<>>, <<"decode_failed">>, st)
          ELSE IF ~After2MinAgo(alarm_location_data[1]["timestamp"], now)
          THEN Result("none", <<>>, <<>>, <<"stale">>, st)
          ELSE IF last_location_data_str = None
          THEN Result("TypeError", <<"hget:last_location_data">>, <<>>, <<>>, st)
          ELSE IF alarm_code \in DOMAIN VL01_TO_SUNTECH_ALERT_MAP
          THEN Result("none",
                      <<"hget:last_location_data">>
                        \o PacketReads("ALT", dev_id_str, st) \o <<"send">>,
                      << build_suntech_packet("ALT", dev_id_str,
                           Merge(json_loads(last_location_data_str[1]),
                                 alarm_location_data[1]),
                           serial, TRUE, VL01_TO_SUNTECH_ALERT_MAP[alarm_code], st) >>,
                      <<"alt">>,
                      st)
          ELSE Result("none", <<"hget:last_location_data">>, <<>>, <<"unmapped">>, st)

handle_alarm_packet(dev_id_str, serial, body, now, st) ==
    IF Len(body) < ALARM_MIN_LEN
    THEN Result("none", <<>>, <<>>, <<"short">>, st)
    ELSE
      LET alarm_location_data == decode_location_packet(Slice(body, 0, ALARM_SLICE_END))
      IN  IF alarm_location_data = None
          THEN (* None.get("timestamp") *)
               Result("AttributeError", <<>>, <<>>, <<"decode_failed">>, st)
          ELSE
            LET ald == alarm_location_data[1]
                stale == IF After2MinAgo(ald["timestamp"], now) THEN <<>> ELSE <<"stale">>
                last_location_data_str == hget(st, dev_id_str, "last_location_data")
            IN  IF last_location_data_str = None
                THEN (* json.loads(None) *)
                     Result("TypeError", <<"hget:last_location_data">>, <<>>, stale, st)
                ELSE
                  LET definitive_location_data ==
                        Merge(json_loads(last_location_data_str[1]), ald)
                      alarm_code == body[18]
                  IN  IF alarm_code \in DOMAIN VL01_TO_SUNTECH_ALERT_MAP
                      THEN Result("none",
                                  <<"hget:last_location_data">>
                                    \o PacketReads("ALT", dev_id_str, st) \o <<"send">>,
                                  << build_suntech_packet("ALT", dev_id_str,
                                       definitive_location_data, serial, TRUE,
                                       VL01_TO_SUNTECH_ALERT_MAP[alarm_code], st) >>,
                                  stale \o <<"alt">>,
                                  st)
                      ELSE Result("none", <<"hget:last_location_data">>, <<>>,
                                  stale \o <<"unmapped">>, st)

(* variant: the output status is taken from bit 0 of the status byte *)
handle_heartbeat_packet_bit0(dev_id_str, serial, body, st) ==
    IF Len(body) = 0
    THEN Result("IndexError", <<>>, <<>>, <<>>, st)
    ELSE
      LET output_status == body[1] % 2
          st1 == hset(st, dev_id_str, "last_output_status", Str(output_status))
      IN  Result("none", <<"hset:last_output_status", "send">>,
                 << build_suntech_alv_packet(dev_id_str) >>, <<"alv">>, st1)

handle_heartbeat_packet(dev_id_str, serial, body, st) ==
    IF Len(body) = 0
    THEN (* body[0] of an empty body *)
         Result("IndexError", <<>>, <<>>, <<>>, st)
    ELSE
      LET terminal_info == body[1]
          output_status == (terminal_info \div 128) % 2
          st1 == hset(st, dev_id_str, "last_output_status", Str(output_status))
      IN  Result("none", <<"hset:last_output_status", "send">>,
                 << build_suntech_alv_packet(dev_id_str) >>, <<"alv">>, st1)

IsAscii(b) == b < 128

RELAY_1 == <<82, 69, 76, 65, 89, 32, 49>>
RELAY_0 == <<82, 69, 76, 65, 89, 32, 48>>

(* variant: the two relay actions are exchanged *)
handle_reply_command_packet_swapped(dev_id, serial, body, now, st) ==
    LET command_content_str == SelectSeq(Slice(body, 5, -4), IsAscii)
        last_location_data_str == hget(st, dev_id, "last_location_data")
    IN  IF command_content_str = <<>>
        THEN Result("none", <<>>, <<>>, <<>>, st)
        ELSE IF last_location_data_str = None
        THEN Result("none", <<"hget:last_location_data">>, <<>>, <<"reply_error">>, st)
        ELSE IF command_content_str = RELAY_1 \/ command_content_str = RELAY_0
        THEN Result("none",
                    <<"hget:last_location_data">> \o ResReads(dev_id, st) \o <<"send">>,
                    << build_suntech_res_packet(dev_id, "04",
                         IF command_content_str = RELAY_1 THEN "02" ELSE "01",
                         [json_loads(last_location_data_str[1])
                            EXCEPT !["timestamp"] = now], st) >>,
                    <<"res">>,
                    st)
        ELSE Result("none", <<"hget:last_location_data">>, <<>>, <<>>, st)

(* variant: the record with the current instant is stored back *)
handle_reply_command_packet_writeback(dev_id, serial, body, now, st) ==
    LET command_content_str == SelectSeq(Slice(body, 5, -4), IsAscii)
        last_location_data_str == hget(st, dev_id, "last_location_data")
    IN  IF command_content_str = <<>>
        THEN Result("none", <<>>, <<>>, <<>>, st)
        ELSE IF last_location_data_str = None
        THEN Result("none", <<"hget:last_location_data">>, <<>>, <<"reply_error">>, st)
        ELSE
          LET last_location_data ==
                [json_loads(last_location_data_str[1]) EXCEPT !["timestamp"] = now]
              st1 == hset(st, dev_id, "last_location_data",
                          json_dumps(Serialized(last_location_data)))
          IN  IF command_content_str = RELAY_1 \/ command_content_str = RELAY_0
              THEN Result("none",
                          <<"hget:last_location_data", "hset:last_location_data">>
                            \o ResReads(dev_id, st) \o <<"send">>,
                          << build_suntech_res_packet(dev_id, "04",
                               IF command_content_str = RELAY_1 THEN "01" ELSE "02",
                               last_location_data, st) >>,
                          <<"res">>,
                          st1)
              ELSE Result("none",
                          <<"hget:last_location_data", "hset:last_location_data">>,
                          <<>>, <<>>, st1)

(* the text is kept as its code points; decode("ascii", errors="ignore")   *)
(* drops the bytes that are not ASCII                                       *)
handle_reply_command_packet(dev_id, serial, body, now, st) ==
    LET command_content == Slice(body, 5, -4)
        command_content_str == SelectSeq(command_content, IsAscii)
    IN  IF command_content_str = <<>>
        THEN Result("none", <<>>, <<>>, <<>>, st)
        ELSE
          LET last_location_data_str == hget(st, dev_id, "last_location_data")
          IN  IF last_location_data_str = None
              THEN (* json.loads(None) raises TypeError, caught at line 203 *)
                   Result("none", <<"hget:last_location_data">>, <<>>,
                          <<"reply_error">>, st)
              ELSE
                LET last_location_data ==
                      [json_loads(last_location_data_str[1])
                         EXCEPT !["timestamp"] = now]
                IN  IF command_content_str = RELAY_1 \/ command_content_str = RELAY_0
                    THEN Result("none",
                                <<"hget:last_location_data">>
                                  \o ResReads(dev_id, st) \o <<"send">>,
                                << build_suntech_res_packet(dev_id, "04",
                                     IF command_content_str = RELAY_1 THEN "01" ELSE "02",
                                     last_location_data, st) >>,
                                <<"res">>,
                                st)
                    ELSE Result("none", <<"hget:last_location_data">>, <<>>,
                                <<>>, st)

-----------------------------------------------------------------------------
(* Frames delivered by the transport *)

MaxFrames == 3
NumSerials == 1
NumNow == 2

Chars_imei == << "i", "m", "e", "i", ":", "1", "2", "3", "-", "4", "5", "6", "-",
                 "7", "8", "9", "0", "1", "2", "3" >>
Chars_plain == << "4", "5", "6", "7", "8", "9", "0", "1", "2", "3" >>

DevIds == { Chars_imei, Chars_plain }

Serials == { 10003 - 5000 * k : k \in 0..(NumSerials - 1) }

Clock == << DateTime(2024, 6, 1, 12, 1, 0),
            DateTime(2024, 6, 1, 12, 30, 0),
            DateTime(2025, 1, 1, 0, 0, 30),
            DateTime(2023, 12, 31, 23, 59, 59) >>

Nows == { Clock[i] : i \in 1..(IF NumNow < Len(Clock) THEN NumNow ELSE Len(Clock)) }

NoTime == DateTime(2000, 1, 1, 0, 0, 0)

DateA == << 24, 6, 1, 12, 0, 0 >>
DateOld == << 23, 12, 31, 23, 59, 59 >>
DateBad == << 24, 2, 30, 12, 0, 0 >>

Raw90 == << 9, 167, 236, 128 >>      \* 162000000
Raw45 == << 4, 211, 246, 64 >>       \* 81000000
Raw0 == << 0, 0, 0, 0 >>
RawBig == << 127, 255, 255, 255 >>   \* 2147483647

Zeros(n) == [i \in 1..n |-> 0]
Take(b, n) == Slice(b, 0, n)

FixedPart(date, sats, lat, lon, speed, course) ==
    date \o <<sats>> \o lat \o lon \o <<speed>> \o course

TrailingPart(mcc, mnc_length, acc, rt, odo) ==
    mcc \o Zeros(mnc_length + 12) \o <<acc, 0, rt>> \o odo

\* 2024-06-01T12:00:00, 8 satellites, 90 N, 45 W, 50 km/h, course 0x1C20,
\* 1-byte MNC, ACC on, realtime, 1234 km
FullA == FixedPart(DateA, 200, Raw90, Raw45, 50, <<28, 32>>)
         \o TrailingPart(<<2, 212>>, 1, 1, 0, <<0, 0, 4, 210>>)

\* 2023-12-31T23:59:59, raw latitude 0 South, raw longitude 2^31-1 East, no fix,
\* 2-byte MNC, ACC off, replayed from memory, 7 km
FullB == FixedPart(DateOld, 5, Raw0, RawBig, 0, <<0, 32>>)
         \o TrailingPart(<<130, 212>>, 2, 0, 1, <<0, 0, 0, 7>>)

FullBad == FixedPart(DateBad, 200, Raw90, Raw45, 50, <<28, 32>>)
           \o TrailingPart(<<2, 212>>, 1, 1, 0, <<0, 0, 4, 210>>)

LocationBodies ==
    { FullA, FullB, FullBad, Take(FullA, 38), Take(FullA, 34), Take(FullA, 18),
      Take(FullA, 17), <<>> }

AlarmBody(date, code, n) ==
    Take(Take(FixedPart(date, 200, Raw90, Raw45, 50, <<28, 32>>), 16)
         \o <<28, code, 0, 0, 0, 0, 0>>, n)

AlarmBodies ==
    { AlarmBody(DateA, 6, 21), AlarmBody(DateA, 66, 21), AlarmBody(DateOld, 6, 21),
      AlarmBody(DateBad, 6, 21), AlarmBody(DateA, 255, 23), AlarmBody(DateA, 6, 20),
      <<>> }

HeartbeatBodies == { <<>>, <<128, 4, 1>>, <<0>>, <<127, 255>> }

ReplyBody(text) == Zeros(5) \o text \o <<0, 0, 0, 1>>

ReplyBodies ==
    { ReplyBody(RELAY_1), ReplyBody(RELAY_0), ReplyBody(<<82, 69>>), ReplyBody(<<>>),
      ReplyBody(<<200>> \o RELAY_1), <<1, 2, 3>> }

-----------------------------------------------------------------------------
(* The state machine: one action per frame type.  An exception that escapes *)
(* a handler is recorded in last.raised; what the transport does with it is *)
(* outside this core, and the next frame is taken as usual.                 *)

Init ==
    /\ store = [d \in DevIds |-> EmptyHash]
    /\ lastGood = [d \in DevIds |-> None]
    /\ lastHb = [d \in DevIds |-> None]
    /\ nframes = 0
    /\ last = [handler |-> "init", dev |-> <<>>, serial |-> 0, body |-> <<>>,
               now |-> NoTime, raised |-> "none", ops |-> <<>>, sent |-> <<>>,
               logs |-> <<>>, before |-> EmptyHash]

Processed(handler, d, s, b, now, r) ==
    /\ nframes < MaxFrames
    /\ nframes' = nframes + 1
    /\ store' = r.store
    /\ last' = [handler |-> handler, dev |-> d, serial |-> s, body |-> b,
                now |-> now, raised |-> r.raised, ops |-> r.ops, sent |-> r.sent,
                logs |-> r.logs, before |-> store[d]]

LocationFrame ==
    \E d \in DevIds, s \in Serials, b \in LocationBodies :
        /\ Processed("location", d, s, b, NoTime, handle_location_packet(d, s, b, store))
        /\ lastGood' = IF decode_location_packet(b) # None
                       THEN [lastGood EXCEPT ![d] = Some(b)]
                       ELSE lastGood
        /\ UNCHANGED lastHb

AlarmFrame ==
    \E d \in DevIds, s \in Serials, b \in AlarmBodies, now \in Nows :
        /\ Processed("alarm", d, s, b, now, handle_alarm_packet(d, s, b, now, store))
        /\ UNCHANGED <<lastGood, lastHb>>

HeartbeatFrame ==
    \E d \in DevIds, s \in Serials, b \in HeartbeatBodies :
        /\ Processed("heartbeat", d, s, b, NoTime, handle_heartbeat_packet(d, s, b, store))
        /\ lastHb' = [lastHb EXCEPT ![d] = Some(b)]
        /\ UNCHANGED lastGood

ReplyFrame ==
    \E d \in DevIds, s \in Serials, b \in ReplyBodies, now \in Nows :
        /\ Processed("reply", d, s, b, now,
                     handle_reply_command_packet(d, s, b, now, store))
        /\ UNCHANGED <<lastGood, lastHb>>

Next == LocationFrame \/ AlarmFrame \/ HeartbeatFrame \/ ReplyFrame

Spec == Init /\ [][Next]_vars

-----------------------------------------------------------------------------
(* The decoder on its own: decode_location_packet applied to bodies that    *)
(* range over the hemisphere and fix bits, the direction, zero and non-zero *)
(* raw coordinates, both MNC lengths and the lengths around each field.     *)

CourseHi == { h + k : h \in {0, 4, 8, 12, 16, 20, 24, 28}, k \in {0, 3} }
CourseLo == { 32, 255 }
RawLats == { Raw0, Raw90, <<0, 0, 0, 1>> }
RawLons == { Raw0, Raw45 }
Mccs == { <<2, 212>>, <<130, 212>> }
MncLength(mcc) == IF mcc[1] >= 128 THEN 2 ELSE 1
CutLens == { 18, 19, 20, 33, 34, 35, 36, 37, 39, 40, 41 }

DecodeBodies ==
    { Take(FixedPart(DateA, 200, lat, lon, 50, <<hi, lo>>)
           \o TrailingPart(mcc, MncLength(mcc), 1, 0, <<0, 0, 4, 210>>), n) :
        lat \in RawLats, lon \in RawLons, hi \in CourseHi, lo \in CourseLo,
        mcc \in Mccs, n \in CutLens }

DecodeInit ==
    /\ store = [d \in DevIds |-> EmptyHash]
    /\ lastGood = [d \in DevIds |-> None]
    /\ lastHb = [d \in DevIds |-> None]
    /\ nframes = 0
    /\ \E b \in DecodeBodies :
          last = [handler |-> "input", body |-> b, result |-> None]

DecodeCall ==
    /\ last.handler = "input"
    /\ last' = [handler |-> "decode", body |-> last.body,
                result |-> decode_location_packet(last.body)]
    /\ UNCHANGED <<store, lastGood, lastHb, nframes>>

DecodeNext == DecodeCall

SpecDecode == DecodeInit /\ [][DecodeNext]_vars

-----------------------------------------------------------------------------
(* Properties *)

BodyDateValid(b) ==
    /\ Len(b) >= 6
    /\ b[2] \in 1..12
    /\ b[3] \in 1..(IF b[2] = 2
                    THEN (IF b[1] % 4 = 0 /\ b[1] \notin {100, 200} THEN 29 ELSE 28)
                    ELSE IF b[2] \in {4, 6, 9, 11} THEN 30 ELSE 31)
    /\ b[4] <= 23 /\ b[5] <= 59 /\ b[6] <= 59

SendCalls == Len(SelectSeq(last.ops, LAMBDA o : o = "send"))

(* the cached record of a location body that decodes *)
Cached(b) == Some(json_dumps(Serialized(decode_location_packet(b)[1])))

NormalizedId == "4567890123"

(* C1 (as claimed): an alarm frame of at least 21 bytes with a valid date,  *)
(* a mapped alarm code in byte 17 and a cached last_location sends exactly  *)
(* one ALT packet carrying the table's alert identifier and realtime "1".   *)
C1_MappedAlarmSendsAlt ==
    ( /\ last.handler = "alarm"
      /\ Len(last.body) >= 21
      /\ BodyDateValid(last.body)
      /\ last.body[18] \in AlertCodes
      /\ last.before.last_location_data # None )
    => ( /\ Len(last.sent) = 1
         /\ SendCalls = 1
         /\ last.sent[1].fields[1] = "ALT"
         /\ last.sent[1].fields[6] = "1"
         /\ last.sent[1].fields[17] = Str(VL01_TO_SUNTECH_ALERT_MAP[last.body[18]])
         /\ (last.body[18] = 6 => last.sent[1].fields[17] = "1") )

(* C2 (as claimed): no handler lets an error escape, whatever the body and  *)
(* whatever the store holds.                                                 *)
C2_NoErrorEscapes == last.raised = "none"

(* C3 (as claimed): an alarm frame of at least 21 bytes for a device with   *)
(* no cached last_location, whose own location fields do not decode, is     *)
(* dropped: nothing sent, store unchanged, handler returns without raising. *)
C3_AlarmWithoutCacheDropped ==
    ( /\ last.handler = "alarm"
      /\ Len(last.body) >= 21
      /\ last.before.last_location_data = None
      /\ decode_location_packet(Slice(last.body, 0, ALARM_SLICE_END)) = None )
    => ( /\ last.sent = <<>>
         /\ SendCalls = 0
         /\ store[last.dev] = last.before
         /\ last.raised = "none" )

C5_ShortAlarmDropped ==
    ( last.handler = "alarm" /\ Len(last.body) < 21 )
    => ( /\ last.sent = <<>>
         /\ last.ops = <<>>
         /\ store[last.dev] = last.before
         /\ last.raised = "none" )

C5_Witness ==
    /\ last.handler = "alarm"
    /\ Len(last.body) = 20
    /\ last.before.last_location_data # None
    /\ last.ops = <<>>
    /\ last.raised = "none"

(* C6: a location frame that decodes first writes the decoded record, its   *)
(* timestamp as YYYY-MM-DDTHH:MM:SS, as the device's last_location, and     *)
(* then sends exactly one STT packet whose realtime field is "1" when the   *)
(* record's is_realtime is true and "0" when it is false.                   *)
C6_LocationCachedThenSent ==
    ( last.handler = "location" /\ decode_location_packet(last.body) # None )
    => LET rec == decode_location_packet(last.body)[1]
           cached == store[last.dev].last_location_data
       IN  /\ last.raised = "none"
           /\ last.ops[1] = "hset:last_location_data"
           /\ last.ops[Len(last.ops)] = "send"
           /\ SendCalls = 1
           /\ Len(last.sent) = 1
           /\ last.sent[1].fields[1] = "STT"
           /\ (Has(rec, "is_realtime") /\ rec["is_realtime"]
                 => last.sent[1].fields[6] = "1")
           /\ (Has(rec, "is_realtime") /\ ~rec["is_realtime"]
                 => last.sent[1].fields[6] = "0")
           /\ cached # None
           /\ DOMAIN json_loads(cached[1]) = DOMAIN rec
           /\ \A k \in DOMAIN rec \ {"timestamp"} : json_loads(cached[1])[k] = rec[k]
           /\ json_loads(cached[1])["timestamp"] =
                (IF Slice(last.body, 0, 6) = DateA THEN "2024-06-01T12:00:00"
                 ELSE "2023-12-31T23:59:59")

C6_Witness ==
    /\ last.handler = "location"
    /\ last.body = FullB
    /\ Len(last.sent) = 1
    /\ last.sent[1].fields[6] = "0"
    /\ json_loads(store[last.dev].last_location_data[1])["timestamp"]
         = "2023-12-31T23:59:59"

(* C7: a location frame with an invalid calendar date or fewer than 18      *)
(* bytes fails to decode; the handler sends nothing and leaves the device's *)
(* cached state unchanged.                                                   *)
C7_MalformedLocationDropped ==
    ( last.handler = "location"
      /\ (Len(last.body) < 18 \/ ~BodyDateValid(last.body)) )
    => ( /\ decode_location_packet(last.body) = None
         /\ last.sent = <<>>
         /\ SendCalls = 0
         /\ store[last.dev] = last.before
         /\ last.raised = "none" )

C7_Witness ==
    /\ last.handler = "location"
    /\ last.body = FullBad
    /\ last.before.last_location_data # None
    /\ store[last.dev] = last.before
    /\ last.sent = <<>>

(* C8: after any sequence of frames the cached last_location of a device is *)
(* the record of the latest location frame of the device that decoded, and  *)
(* is absent when there was none; the overwrite does not look at the        *)
(* timestamps.                                                               *)
C8_CacheIsLatestDecodedLocation ==
    \A d \in DevIds :
        store[d].last_location_data =
            (IF lastGood[d] = None THEN None ELSE Cached(lastGood[d][1]))

C8_Witness ==
    /\ last.handler = "location"
    /\ last.body = FullB
    /\ last.before.last_location_data = Cached(FullA)
    /\ store[last.dev].last_location_data = Cached(FullB)

(* C9: last_output_status is changed by heartbeat frames only: the          *)
(* location, alarm and command-reply handlers leave it as it was for every  *)
(* device, and a heartbeat frame with a byte 0 sets it, for its device, to  *)
(* bit 7 of that byte.                                                       *)
C9_OutputStatusStep ==
    /\ last'.handler \in {"location", "alarm", "reply"}
         => \A d \in DevIds :
              store'[d].last_output_status = store[d].last_output_status
    /\ last'.handler = "heartbeat"
         => /\ \A d \in DevIds \ {last'.dev} :
                 store'[d].last_output_status = store[d].last_output_status
            /\ Len(last'.body) >= 1
                 => store'[last'.dev].last_output_status =
                      Some(IF last'.body[1] >= 128 THEN "1" ELSE "0")

C9_OutputStatusOnlyByHeartbeat == [][C9_OutputStatusStep]_vars

C9_Witness ==
    /\ last.handler = "heartbeat"
    /\ Len(last.body) >= 1
    /\ last.body[1] = 128
    /\ last.before.last_output_status = Some("0")
    /\ store[last.dev].last_output_status = Some("1")

(* C10 (as claimed): every heartbeat frame, whatever its body, results in   *)
(* exactly one keep-alive packet "ALV;<normalized id>" being sent.          *)
C10_HeartbeatSendsAlv ==
    last.handler = "heartbeat"
    => ( /\ Len(last.sent) = 1
         /\ SendCalls = 1
         /\ last.sent[1].text = "ALV;" \o NormalizedId )

(* the command text of a reply body: bytes [5, len-4), ASCII bytes only *)
ReplyText(b) ==
    IF Len(b) > 9 THEN SelectSeq(SubSeq(b, 6, Len(b) - 4), LAMBDA x : x <= 127)
    ELSE <<>>

Text_RELAY_1 == <<82, 69, 76, 65, 89, 32, 49>>
Text_RELAY_0 == <<82, 69, 76, 65, 89, 32, 48>>

(* C11: for a device with a cached last_location, a command reply whose     *)
(* text is exactly "RELAY 1" sends exactly one RES packet with group "04"   *)
(* and action "01", "RELAY 0" sends one with group "04" and action "02",    *)
(* and any other text, the empty one included, sends nothing.               *)
C11_RelayReplies ==
    ( last.handler = "reply" /\ last.before.last_location_data # None )
    => LET t == ReplyText(last.body)
       IN  /\ last.raised = "none"
           /\ t = Text_RELAY_1
                => /\ Len(last.sent) = 1 /\ SendCalls = 1
                   /\ last.sent[1].fields[1] = "RES"
                   /\ last.sent[1].fields[3] = "04"
                   /\ last.sent[1].fields[4] = "01"
           /\ t = Text_RELAY_0
                => /\ Len(last.sent) = 1 /\ SendCalls = 1
                   /\ last.sent[1].fields[1] = "RES"
                   /\ last.sent[1].fields[3] = "04"
                   /\ last.sent[1].fields[4] = "02"
           /\ t \notin {Text_RELAY_1, Text_RELAY_0}
                => last.sent = <<>> /\ SendCalls = 0

C11_Witness ==
    /\ last.handler = "reply"
    /\ last.before.last_location_data # None
    /\ ReplyText(last.body) = Text_RELAY_1
    /\ Len(last.sent) = 1
    /\ last.sent[1].fields[4] = "01"

(* the date and time in bytes 0-5 of a body, and the same body carrying     *)
(* the instant t there instead                                               *)
BodyTime(b) == DateTime(2000 + b[1], b[2], b[3], b[4], b[5], b[6])

BodyAt(b, t) ==
    << t.year - 2000, t.month, t.day, t.hour, t.minute, t.second >>
    \o SubSeq(b, 7, Len(b))

SameButDateTime(p, q) ==
    /\ Len(p.fields) = Len(q.fields)
    /\ \A i \in (1..Len(p.fields)) \ {7, 8} : p.fields[i] = q.fields[i]

C13_AltBuiltFromOverlay ==
    ( /\ last.handler = "alarm"
      /\ Len(last.body) >= 21
      /\ BodyDateValid(last.body)
      /\ last.body[18] \in AlertCodes
      /\ last.before.last_location_data # None )
    => LET cached == json_loads(last.before.last_location_data[1])
       IN  /\ Len(last.sent) = 1
           /\ last.sent[1].fields[1] = "ALT"
           /\ last.sent[1].fields[7] = StrfYmd(BodyTime(last.body))
           /\ last.sent[1].fields[8] = StrfHMS(BodyTime(last.body))
           /\ last.sent[1].fields[11] = Fmt2f(last.body[16])
           /\ last.sent[1].fields[13] = Str(last.body[7] % 16)
           /\ last.sent[1].fields[14] =
                (IF Get(cached, "status_bits", 0) >= 2 THEN "1" ELSE "0")
           /\ last.sent[1].fields[24] = Str(Get(cached, "gps_odometer", 0))

-----------------------------------------------------------------------------
(* Properties of the decoder, under SpecDecode *)

Decoded == last.handler = "decode" /\ last.result # None

CourseWord(b) == b[17] * 256 + b[18]
Bit(w, n) == (w \div (2 ^ n)) % 2 = 1

(* 0-based offset of the ACC byte of a body of at least 20 bytes *)
AccAt(b) == IF b[19] >= 128 THEN 34 ELSE 33

TrailingKeys == {"status_bits", "is_realtime", "gps_odometer"}
FixedKeys == {"timestamp", "satellites", "latitude", "longitude", "speed_kmh",
              "direction"}

(* C14 (as claimed): a body of at least 18 bytes with a valid date decodes  *)
(* to a record with the fixed-layout fields, and when the body is too short *)
(* for any of the trailing fields, status_bits, is_realtime and             *)
(* gps_odometer are all absent.                                              *)
C14_TrailingAllOrNothing ==
    ( last.handler = "decode" /\ Len(last.body) >= 18 /\ BodyDateValid(last.body) )
    => /\ last.result # None
       /\ FixedKeys \subseteq DOMAIN last.result[1]
       /\ (Len(last.body) < 20 \/ Len(last.body) < AccAt(last.body) + 7)
            => DOMAIN last.result[1] \cap TrailingKeys = {}

(* C14 (amended): a body of at least 18 bytes with a valid date decodes to  *)
(* a record with the fixed-layout fields; each trailing field is present    *)
(* exactly when the body reaches its last byte: status_bits needs byte      *)
(* acc_at, is_realtime byte acc_at + 2, gps_odometer byte acc_at + 6, so a  *)
(* body cut between them keeps the fields decoded before the cut.           *)
C14_TrailingFieldsUpToCut ==
    ( last.handler = "decode" /\ Len(last.body) >= 18 /\ BodyDateValid(last.body) )
    => /\ last.result # None
       /\ FixedKeys \subseteq DOMAIN last.result[1]
       /\ DOMAIN last.result[1] \subseteq FixedKeys \cup TrailingKeys
       /\ Has(last.result[1], "status_bits")
            <=> (Len(last.body) >= 20 /\ Len(last.body) >= AccAt(last.body) + 1)
       /\ Has(last.result[1], "is_realtime")
            <=> (Len(last.body) >= 20 /\ Len(last.body) >= AccAt(last.body) + 3)
       /\ Has(last.result[1], "gps_odometer")
            <=> (Len(last.body) >= 20 /\ Len(last.body) >= AccAt(last.body) + 7)

C14_Witness ==
    /\ Decoded
    /\ Len(last.body) = 37
    /\ Has(last.result[1], "status_bits")
    /\ Has(last.result[1], "is_realtime")
    /\ ~Has(last.result[1], "gps_odometer")

(* the big-endian 32-bit value at 0-based offset i of a body *)
RawAt(b, i) == b[i + 1] * 16777216 + b[i + 2] * 65536 + b[i + 3] * 256 + b[i + 4]

(* the value of a coordinate compared with 0 *)
Positive(v) == ~v.neg /\ v.raw > 0
Negative(v) == v.neg /\ v.raw > 0
NonNegative(v) == ~Negative(v)
NegativeOrZero(v) == ~Positive(v)

(* the body with one bit of the high byte of the course-status word flipped *)
FlipHi(b, m) ==
    [b EXCEPT ![17] = IF (b[17] \div m) % 2 = 1 THEN b[17] - m ELSE b[17] + m]

SameFix(r, x) ==
    /\ x["direction"] = r["direction"]
    /\ Has(x, "status_bits") = Has(r, "status_bits")
    /\ Has(r, "status_bits") => x["status_bits"] = r["status_bits"]

(* each hemisphere bit turns the sign of its own axis and nothing else;     *)
(* direction is bits 0-9 and the fix flag is bit 12                          *)
OwnAxisOnly ==
    LET r == last.result[1]
        a == decode_location_packet(FlipHi(last.body, 4))[1]
        o == decode_location_packet(FlipHi(last.body, 8))[1]
    IN  /\ a["longitude"] = r["longitude"]
        /\ a["latitude"].raw = r["latitude"].raw
        /\ a["latitude"].neg = ~r["latitude"].neg
        /\ o["latitude"] = r["latitude"]
        /\ o["longitude"].raw = r["longitude"].raw
        /\ o["longitude"].neg = ~r["longitude"].neg
        /\ SameFix(r, a)
        /\ SameFix(r, o)
        /\ r["direction"] = CourseWord(last.body) % 1024
        /\ Has(r, "status_bits")
             => (r["status_bits"] >= 2 <=> Bit(CourseWord(last.body), 12))

-----------------------------------------------------------------------------
(* Properties of the frame handlers, continued *)

(* the raw values of 90 and 180 degrees *)
MaxLatRaw == 90 * 1800000
MaxLonRaw == 180 * 1800000

InRange(rec) ==
    /\ rec["latitude"].raw <= MaxLatRaw
    /\ rec["longitude"].raw <= MaxLonRaw

(* C16 (as claimed): every record decode_location_packet returns, and every *)
(* cached last_location, has its latitude in [-90, 90] and its longitude in *)
(* [-180, 180].                                                              *)
C16_CoordinatesInRange ==
    /\ ( last.handler = "location" /\ decode_location_packet(last.body) # None )
         => InRange(decode_location_packet(last.body)[1])
    /\ \A d \in DevIds :
         store[d].last_location_data # None
           => InRange(json_loads(store[d].last_location_data[1]))

(* C17 (as claimed): device ids that normalize to the same identifier share *)
(* one cached last_location and one last_output_status.                      *)
C17_StateKeyedByNormalizedId ==
    \A d1, d2 \in DevIds :
        NormalizeId(d1) = NormalizeId(d2) => store[d1] = store[d2]

(* C18 (as claimed): an STT packet sent before any heartbeat of its device  *)
(* has output status "00000000" and mode "1"; one sent after a heartbeat    *)
(* has mode "0" and output status "0000000b", b the output bit (bit 7 of    *)
(* byte 0) of the most recent heartbeat.                                     *)
C18_SttFollowsHeartbeats ==
    ( last.handler = "location" /\ Len(last.sent) = 1 )
    => LET hb == lastHb[last.dev]
           f == last.sent[1].fields
       IN  /\ hb = None => ( f[16] = "00000000" /\ f[17] = "1" )
           /\ hb # None
                => /\ f[17] = "0"
                   /\ Len(hb[1]) >= 1
                        => f[16] = "0000000" \o (IF hb[1][1] >= 128 THEN "1" ELSE "0")

(* a coordinate with 6 decimals after exactly one sign character *)
OneSign(v) == (IF Negative(v) THEN "-" ELSE "+") \o Fmt6f(Abs(v.raw))

(* the record a sent STT or ALT packet was built from *)
SentFrom ==
    IF last.handler = "location" THEN decode_location_packet(last.body)[1]
    ELSE json_loads(last.before.last_location_data[1])

(* C19 (as claimed): fields 9 and 10 of every STT and ALT packet are the    *)
(* latitude and longitude with 6 decimals and exactly one leading sign, "+" *)
(* for a non-negative value and "-" for a negative one.                      *)
C19_CoordinatesOneSign ==
    ( last.handler \in {"location", "alarm"} /\ Len(last.sent) = 1 )
    => /\ last.sent[1].fields[9] = OneSign(SentFrom["latitude"])
       /\ last.sent[1].fields[10] = OneSign(SentFrom["longitude"])

(* C20: the alarm and command-reply handlers only read the store: a frame   *)
(* of either kind makes no hset call and leaves every device's cached       *)
(* last_location and last_output_status exactly as they were.                *)
C20_ReadOnlyStep ==
    last'.handler \in {"alarm", "reply"}
    => /\ store' = store
       /\ \A i \in 1..Len(last'.ops) :
            last'.ops[i] \notin {"hset:last_location_data", "hset:last_output_status"}

C20_AlarmAndReplyOnlyRead == [][C20_ReadOnlyStep]_vars

C20_Witness ==
    /\ last.handler = "reply"
    /\ last.before.last_location_data = Cached(FullA)
    /\ last.before.last_output_status = Some("1")
    /\ Len(last.sent) = 1
    /\ last.sent[1].fields[1] = "RES"
    /\ last.sent[1].fields[8] = StrfHMS(last.now)
    /\ StrfIso(last.now) # json_loads(last.before.last_location_data[1])["timestamp"]
    /\ store[last.dev] = last.before

=============================================================================
